---- MODULE Spec2Model ----
(***************************************************************************)
(* Model of the update-chain engine of src/src/engine.rs: Engine::step,    *)
(* process_action, process_rule, process_update and resolve, driven by a   *)
(* host that pushes updates into the chain (as tests::test2 does) and may  *)
(* call resolve() directly.                                                *)
(*                                                                         *)
(* Filters, rules and action generators are caller-supplied closures.  A   *)
(* filter is kept uninterpreted: every update owns its own closure, named  *)
(* by the order in which the host created it, and the committed State is   *)
(* represented by the sequence of filters applied to the initial State, so *)
(* two States are equal only when the same filters were applied in the     *)
(* same order.  The responses of the closures a call invokes are its       *)
(* inputs.                                                                 *)
(***************************************************************************)
EXTENDS Integers, Sequences, FiniteSets, TLC

\* ------------------------------------------------------------------ bounds
MaxRules   == 2   \* at most this many registered rules
MaxPushes  == 2   \* the host creates at most this many updates
MaxCursor  == 2   \* step() is explored while the cursor is below this
NumTags    == 1   \* distinct tags supplied by the domain
NumActions == 1   \* distinct actions a rule can hand back

\* ------------------------------------------------------------- data model
FilterIds == 1..MaxPushes
Tags      == 1..NumTags
ActionIds == 1..NumActions
NoAction  == 0
Statuses  == {"Resolved", "Partial", "Unresolved"}

Skip      == [kind |-> "Skip", a |-> NoAction, t |-> 0]
Divert(x) == [kind |-> "Divert", a |-> x, t |-> 0]
Revert(x) == [kind |-> "Revert", a |-> x, t |-> 0]
Inject(x) == [kind |-> "Inject", a |-> x, t |-> 0]
Attach(g) == [kind |-> "Attach", a |-> NoAction, t |-> g]
RuleResponse ==
    {Skip} \cup {Divert(x) : x \in ActionIds} \cup {Revert(x) : x \in ActionIds}
           \cup {Inject(x) : x \in ActionIds} \cup {Attach(g) : g \in Tags}

Update(f, i, r) == [filter |-> f, id |-> i, tags |-> {}, resolved |-> r]

Valid(us)    == [kind |-> "Valid", updates |-> us]
Invalid      == [kind |-> "Invalid", updates |-> << >>]
RequestInput == [kind |-> "RequestInput", updates |-> << >>]
NoResponse   == [kind |-> "NotCalled", updates |-> << >>]
\* the chains a generator hands back: none, or one update of its own
Generated ==
    {<< >>} \cup {<<Update(MaxPushes + 1, 1, r)>> : r \in Statuses}
ActionResponse ==
    {Valid(us) : us \in Generated} \cup {Invalid, RequestInput}

InitialState == << >>

NotCalled   == [kind |-> "NotCalled", val |-> << >>]
None        == [kind |-> "None", val |-> << >>]
Some(s)     == [kind |-> "Some", val |-> s]

VARIABLES
    action,    \* Engine.action: NoAction, or the pending action
    rules,     \* Engine.rules: the registered rules, in registration order
    updates,   \* Engine.updates: the chain of queued updates
    update,    \* Engine.update: the cursor (0-based index into updates)
    state,     \* Engine.state: the committed State
    pushed,    \* number of updates (and filter closures) created so far
    panicked,  \* the last call unwound with a panic
    op,        \* history: the last call made by the host
    outcome,   \* history: how that call ended
    calls,     \* history: the rule invocations of that call, in order
    response,  \* history: what the action's generator returned in that call
    ret,       \* history: what resolve() returned in that call
    pre,       \* history: the engine as it was before that call
    tick       \* history: parity of the step() calls of the stepping host

vars == <<action, rules, updates, update, state, pushed, panicked,
          op, outcome, calls, response, ret, pre, tick>>

Engine == [action |-> action, rules |-> rules, updates |-> updates,
           update |-> update, state |-> state]

\* ---------------------------------------------------------------- helpers
\* Vec::truncate: keeps the first len elements, no effect when len >= length
truncate(s, len) == IF len >= Len(s) THEN s ELSE SubSeq(s, 1, len)

\* Vec::get_mut(i) is Some exactly when i (0-based) is in range
InRange(s, i) == i + 1 <= Len(s)

\* filter(state)
ApplyFilter(f, st) == Append(st, f)

\* variant: the chain is folded from its newest update to its oldest
RECURSIVE FoldReversed(_, _)
FoldReversed(st, us) ==
    IF us = << >> THEN st
    ELSE FoldReversed(ApplyFilter(us[Len(us)].filter, st),
                      SubSeq(us, 1, Len(us) - 1))

\* for update in self.updates.iter() { state = filter(state) }
RECURSIVE Fold(_, _)
Fold(st, us) ==
    IF us = << >> THEN st
    ELSE Fold(ApplyFilter(us[1].filter, st), Tail(us))

\* ---------------------------------------------------------------- resolve
\* variant: the chain is folded into the result but not cleared
resolveNoClear(e) ==
    IF e.updates = << >>
    THEN [e |-> e, ret |-> NotCalled, panic |-> TRUE]
    ELSE IF e.updates[Len(e.updates)].resolved = "Unresolved"
    THEN [e |-> e, ret |-> None, panic |-> FALSE]
    ELSE [e |-> e, ret |-> Some(Fold(e.state, e.updates)), panic |-> FALSE]

\* variant: the status of the first update is inspected, not the last
resolveFirst(e) ==
    IF e.updates = << >>
    THEN [e |-> e, ret |-> NotCalled, panic |-> TRUE]
    ELSE IF e.updates[1].resolved = "Unresolved"
    THEN [e |-> e, ret |-> None, panic |-> FALSE]
    ELSE [e |-> [e EXCEPT !.updates = << >>],
          ret |-> Some(Fold(e.state, e.updates)), panic |-> FALSE]

resolve(e) ==
    IF e.updates = << >>
    THEN [e |-> e, ret |-> NotCalled, panic |-> TRUE]      \* last().unwrap()
    ELSE IF e.updates[Len(e.updates)].resolved = "Unresolved"
    THEN [e |-> e, ret |-> None, panic |-> FALSE]
    ELSE [e |-> [e EXCEPT !.updates = << >>],
          ret |-> Some(Fold(e.state, e.updates)), panic |-> FALSE]

\* --------------------------------------------------------- process_update
\* variant: the State returned by resolve() is dropped, not stored
process_updateDiscard(e) ==
    IF InRange(e.updates, e.update)
    THEN IF e.updates[e.update + 1].resolved = "Resolved"
         THEN LET r == resolve(e) IN
              [e |-> r.e, ret |-> r.ret, panic |-> r.panic]
         ELSE [e |-> e, ret |-> NotCalled, panic |-> FALSE]
    ELSE [e |-> e, ret |-> NotCalled, panic |-> FALSE]

process_update(e) ==
    IF InRange(e.updates, e.update)
    THEN IF e.updates[e.update + 1].resolved = "Resolved"
         THEN LET r == resolve(e) IN
              IF r.ret.kind = "Some"
              THEN [e |-> [r.e EXCEPT !.state = r.ret.val], ret |-> r.ret,
                    panic |-> r.panic]
              ELSE [e |-> r.e, ret |-> r.ret, panic |-> r.panic]
         ELSE [e |-> e, ret |-> NotCalled, panic |-> FALSE]
    ELSE [e |-> e, ret |-> NotCalled, panic |-> FALSE]

\* ----------------------------------------------------------- process_rule
\* RuleResponse::Divert(a) arm
OnDivert(e, a) ==
    [e EXCEPT !.updates = truncate(e.updates, e.update), !.action = a]

\* variant: the chain is cleared but the cursor is left where it was
OnRevertKeepCursor(e, a) == [e EXCEPT !.updates = << >>, !.action = a]

\* RuleResponse::Revert(a) arm
OnRevert(e, a) ==
    [e EXCEPT !.updates = << >>, !.update = 0, !.action = a]

\* variant: Inject drops the chain from the cursor on, as Divert does
OnInjectTruncating(e, a) ==
    [e EXCEPT !.updates = truncate(e.updates, e.update), !.action = a]

\* RuleResponse::Inject(a) arm
OnInject(e, a) == [e EXCEPT !.action = a]

\* variant: the tag is inserted into a copy and the update keeps its tags
OnAttachDropped(e, t) == e

\* RuleResponse::Attach(t) arm: update is self.updates.last_mut()
OnAttach(e, t) == [e EXCEPT !.updates[Len(e.updates)].tags = @ \cup {t}]

\* match response { ... }
Respond(e, r) ==
    CASE r.kind = "Skip"   -> e
      [] r.kind = "Divert" -> OnDivert(e, r.a)
      [] r.kind = "Revert" -> OnRevert(e, r.a)
      [] r.kind = "Inject" -> OnInject(e, r.a)
      [] r.kind = "Attach" -> OnAttach(e, r.t)

\* variant: the Inject arm misses its return and the loop goes on
ReturnsButInject(r) == r.kind \in {"Divert", "Revert"}

\* the arms that end with `return true`
Returns(r) == r.kind \in {"Divert", "Revert", "Inject"}

\* variant: the cursor advances only when the chain was committed
EndOfPassOnCommit(e) ==
    LET p == process_update(e) IN
    [e |-> [p.e EXCEPT !.update = IF p.ret.kind = "Some" THEN @ + 1 ELSE @],
     ret |-> p.ret, panic |-> p.panic]

\* variant: a commit puts the cursor back to the start of the chain
EndOfPassResetOnCommit(e) ==
    LET p == process_update(e) IN
    [e |-> [p.e EXCEPT !.update = IF p.ret.kind = "Some" THEN 0 ELSE @ + 1],
     ret |-> p.ret, panic |-> p.panic]

\* after the loop: self.process_update(); self.update += 1;
EndOfPass(e) ==
    LET p == process_update(e) IN
    [e |-> [p.e EXCEPT !.update = @ + 1], ret |-> p.ret, panic |-> p.panic]

\* What the rules invoked by one pass over n rules return: the loop asks
\* rule after rule and stops at the first response whose arm returns.
RECURSIVE Scripts(_)
Scripts(n) ==
    IF n = 0 THEN {<< >>}
    ELSE {<<r>> : r \in {x \in RuleResponse : Returns(x)}}
         \cup {<<r>> \o sc : r \in {x \in RuleResponse : ~Returns(x)},
                             sc \in Scripts(n - 1)}

\* The loop over self.rules, from rule i on; every rule is called with
\* (&self.state, &update) where update is self.updates.last_mut().
RECURSIVE RuleLoop(_, _, _, _)
RuleLoop(e, i, resps, log) ==
    IF i > Len(e.rules)
    THEN LET p == EndOfPass(e) IN
         [e |-> p.e, calls |-> log, outcome |-> "Pass", ret |-> p.ret,
          panic |-> p.panic]
    ELSE LET n    == Len(e.updates)
             r    == resps[i]
             log2 == Append(log, [rule |-> e.rules[i], index |-> n - 1,
                                  tags |-> e.updates[n].tags, resp |-> r])
         IN IF Returns(r)
            THEN [e |-> Respond(e, r), calls |-> log2, outcome |-> r.kind,
                  ret |-> NotCalled, panic |-> FALSE]
            ELSE RuleLoop(Respond(e, r), i + 1, resps, log2)

\* variant: a step that finds no update attempts a commit all the same
process_ruleCommitsIdle(e, resps) ==
    IF e.updates # << >>
    THEN RuleLoop(e, 1, resps, << >>)
    ELSE LET r == resolve(e) IN
         [e |-> r.e, calls |-> << >>, outcome |-> "Idle", ret |-> r.ret,
          panic |-> r.panic]

\* variant: the cursor advances also when there is no update to look at
process_ruleIdleAdvances(e, resps) ==
    IF e.updates # << >>
    THEN RuleLoop(e, 1, resps, << >>)
    ELSE [e |-> [e EXCEPT !.update = @ + 1], calls |-> << >>,
          outcome |-> "Idle", ret |-> NotCalled, panic |-> FALSE]

process_rule(e, resps) ==
    IF e.updates # << >>
    THEN RuleLoop(e, 1, resps, << >>)
    ELSE [e |-> e, calls |-> << >>, outcome |-> "Idle", ret |-> NotCalled,
          panic |-> FALSE]

\* --------------------------------------------------------- process_action
\* variant: the slot is never found occupied
ActionPendingNever(e) == FALSE

\* if let Some(action) = &self.action
ActionPending(e) == e.action # NoAction

\* Every arm of the match on the generator's response is todo!().
process_action(e, aresp) ==
    IF ActionPending(e)
    THEN CASE aresp.kind = "Valid"        -> [handled |-> TRUE, panic |-> TRUE]
           [] aresp.kind = "Invalid"      -> [handled |-> TRUE, panic |-> TRUE]
           [] aresp.kind = "RequestInput" -> [handled |-> TRUE, panic |-> TRUE]
    ELSE [handled |-> FALSE, panic |-> FALSE]

\* ------------------------------------------------------------------- step
step(e, aresp, resps) ==
    IF process_action(e, aresp).handled
    THEN [e |-> e, calls |-> << >>, outcome |-> "Action", ret |-> NotCalled,
          panic |-> process_action(e, aresp).panic]
    ELSE process_rule(e, resps)

\* the closures one step() invokes, and what each of them returns
StepInputs(e) ==
    IF ActionPending(e)
    THEN {[aresp |-> a, resps |-> << >>] : a \in ActionResponse}
    ELSE IF e.updates = << >>
    THEN {[aresp |-> NoResponse, resps |-> << >>]}
    ELSE {[aresp |-> NoResponse, resps |-> sc] : sc \in Scripts(Len(e.rules))}

\* ------------------------------------------------------------ transitions
Init ==
    /\ action = NoAction
    /\ rules \in {[i \in 1..n |-> i] : n \in 0..MaxRules}
    /\ updates = << >>
    /\ update = 0
    /\ state = InitialState
    /\ pushed = 0
    /\ panicked = FALSE
    /\ op = "new"
    /\ outcome = "None"
    /\ calls = << >>
    /\ response = NoResponse
    /\ ret = NotCalled
    /\ pre = [action |-> NoAction, rules |-> rules, updates |-> << >>,
              update |-> 0, state |-> InitialState]
    /\ tick = 0

Install(r) ==
    /\ action' = r.e.action
    /\ rules' = r.e.rules
    /\ updates' = r.e.updates
    /\ update' = r.e.update
    /\ state' = r.e.state
    /\ panicked' = r.panic
    /\ ret' = r.ret
    /\ pre' = Engine

\* the host pushes an update into the chain, as tests::test2 does
Push ==
    /\ ~panicked
    /\ pushed < MaxPushes
    /\ pushed' = pushed + 1
    /\ \E r \in Statuses :
          updates' = Append(updates, Update(pushed + 1, update + 1, r))
    /\ op' = "push"
    /\ outcome' = "None"
    /\ calls' = << >>
    /\ response' = NoResponse
    /\ ret' = NotCalled
    /\ pre' = Engine
    /\ UNCHANGED <<action, rules, update, state, panicked, tick>>

\* the host calls engine.step()
Step ==
    /\ ~panicked
    /\ update < MaxCursor
    /\ \E in \in StepInputs(Engine) :
          LET r == step(Engine, in.aresp, in.resps) IN
          /\ Install(r)
          /\ outcome' = r.outcome
          /\ calls' = r.calls
          /\ response' = in.aresp
    /\ op' = "step"
    /\ UNCHANGED <<pushed, tick>>

\* the host calls engine.resolve() directly; the returned State is kept in
\* ret and is not stored into the engine
Resolve ==
    /\ ~panicked
    /\ LET r == resolve(Engine) IN
          /\ Install(r)
          /\ outcome' = r.ret.kind
    /\ calls' = << >>
    /\ response' = NoResponse
    /\ op' = "resolve"
    /\ UNCHANGED <<pushed, tick>>

Next == Push \/ Step \/ Resolve

Spec == Init /\ [][Next]_vars

\* ------------------------------------------- the host that keeps stepping
\* A host that only pushes updates and calls step(), with rules that never
\* return Divert, Revert or Inject, and that never stops calling step().
\* The engine reads the cursor only through updates.get_mut(cursor) and
\* truncate(cursor), so every cursor at or beyond the longest chain behaves
\* alike: cursors beyond CursorCap are folded into CursorCap, which keeps
\* the run of steps unbounded while the state space stays finite.  tick
\* tells one call of step() from the next, so that a call which changes
\* nothing in the engine is still a step of the run.
CursorCap == IF MaxCursor > MaxPushes THEN MaxCursor ELSE MaxPushes

Saturate(e) == [e EXCEPT !.update = IF @ > CursorCap THEN CursorCap ELSE @]

StepQuiet ==
    /\ ~panicked
    /\ ~ActionPending(Engine)
    /\ \E in \in StepInputs(Engine) :
          /\ \A k \in 1..Len(in.resps) : ~Returns(in.resps[k])
          /\ LET r == step(Engine, in.aresp, in.resps) IN
             /\ Install([r EXCEPT !.e = Saturate(r.e)])
             /\ outcome' = r.outcome
             /\ calls' = r.calls
             /\ response' = in.aresp
    /\ op' = "step"
    /\ tick' = 1 - tick
    /\ UNCHANGED pushed

NextLive == Push \/ StepQuiet

SpecLive == Init /\ [][NextLive]_vars /\ WF_vars(StepQuiet)

\* ============================================================ properties
Last(s) == s[Len(s)]
FiltersOf(us) == [k \in 1..Len(us) |-> us[k].filter]
StatusesOf(us) == [k \in 1..Len(us) |-> us[k].resolved]
IdsOf(us) == [k \in 1..Len(us) |-> us[k].id]
ShortCircuits == {"Divert", "Revert", "Inject"}

\* resolve() ran in the last call, on a non-empty chain
ResolveCalled ==
    \/ op = "resolve" /\ pre.updates # << >>
    \/ op = "step" /\ ret.kind # "NotCalled"

\* the last call was a step() that ran a whole rule pass
PassCompleted ==
    op = "step" /\ pre.action = NoAction /\ pre.updates # << >>
                /\ outcome = "Pass"

\* C1 Commit ordering: resolve() on a non-empty chain whose last update is
\* not Unresolved returns the committed State with the filter of every
\* queued update applied exactly once, oldest first, whatever the statuses
\* and tags of the interior updates and the cursor, and empties the chain.
C1_CommitOrdering ==
    (ResolveCalled /\ Last(pre.updates).resolved # "Unresolved") =>
        /\ ret = Some(pre.state \o FiltersOf(pre.updates))
        /\ updates = << >>

C1_Witness ==
    /\ op = "resolve"
    /\ Len(pre.updates) >= 2
    /\ pre.updates[1].resolved = "Unresolved"
    /\ pre.updates[1].tags # {}
    /\ pre.updates[1].filter # pre.updates[2].filter
    /\ pre.update > 0
    /\ ret = Some(pre.state \o FiltersOf(pre.updates))
    /\ updates = << >>

\* C2 Unresolved blocks commit: resolve() on a non-empty chain whose last
\* update is Unresolved returns None and leaves the chain, the cursor and
\* the committed State as they were, whatever the interior statuses are.
C2_UnresolvedBlocksCommit ==
    (ResolveCalled /\ Last(pre.updates).resolved = "Unresolved") =>
        /\ ret = None
        /\ state = pre.state
        /\ FiltersOf(updates) = FiltersOf(pre.updates)
        /\ StatusesOf(updates) = StatusesOf(pre.updates)
        /\ op = "resolve" => (updates = pre.updates /\ update = pre.update)

C2_Witness ==
    /\ op = "resolve"
    /\ Len(pre.updates) >= 2
    /\ pre.updates[1].resolved = "Resolved"
    /\ Last(pre.updates).resolved = "Unresolved"
    /\ ret = None
    /\ updates = pre.updates
\* C3 Commit attempt in a step: a step() with no pending action and a
\* non-empty chain whose rule pass is not cut short commits exactly when the
\* LAST queued update is Resolved or Partial (the committed State becomes
\* the fold of the whole chain and the chain is emptied), and commits
\* nothing when it is Unresolved.
C3_CommitDecidedByLast ==
    PassCompleted =>
        IF Last(pre.updates).resolved \in {"Resolved", "Partial"}
        THEN /\ state = pre.state \o FiltersOf(pre.updates)
             /\ updates = << >>
        ELSE /\ state = pre.state
             /\ FiltersOf(updates) = FiltersOf(pre.updates)

\* C4 Rule evaluation target: in every step() that runs a rule pass, each
\* rule is invoked with the update at index cursor of the chain.
C4_RulesSeeUpdateAtCursor ==
    op = "step" =>
        \A k \in 1..Len(calls) : calls[k].index = pre.update

\* C5 Divert truncates from cursor: a step in which a rule returns Divert(a)
\* with cursor c ends with a chain of length exactly c, made of the first c
\* updates unchanged and in order, and with a in the Action slot.
C5_DivertTruncatesFromCursor ==
    (op = "step" /\ outcome = "Divert") =>
        /\ Len(updates) = pre.update
        /\ updates = SubSeq(pre.updates, 1, pre.update)
        /\ action = Last(calls).resp.a

\* C6 Revert clears fully: a step in which a rule returns Revert(a) ends
\* with an empty chain, cursor 0, a in the Action slot and the committed
\* State unchanged, whatever the chain length and the cursor were.
C6_RevertClearsFully ==
    (op = "step" /\ outcome = "Revert") =>
        /\ updates = << >>
        /\ update = 0
        /\ action = Last(calls).resp.a
        /\ state = pre.state

C6_Witness ==
    /\ op = "step"
    /\ outcome = "Revert"
    /\ Len(pre.updates) >= 2
    /\ pre.update >= 1
    /\ updates = << >>
    /\ update = 0
    /\ action \in ActionIds

\* C7 Inject frame: a step in which a rule returns Inject(a) puts a in the
\* Action slot and leaves the chain (as it stood when that rule was
\* invoked, tags attached earlier in the pass included), the cursor and the
\* committed State as they were.
C7_InjectFrame ==
    (op = "step" /\ outcome = "Inject") =>
        /\ action = Last(calls).resp.a
        /\ updates = [pre.updates EXCEPT
                         ![Len(pre.updates)].tags = Last(calls).tags]
        /\ update = pre.update
        /\ state = pre.state

C7_Witness ==
    /\ op = "step"
    /\ outcome = "Inject"
    /\ Len(calls) >= 2
    /\ calls[1].resp.kind = "Attach"
    /\ Len(pre.updates) >= 2
    /\ pre.update < Len(pre.updates)
    /\ Len(updates) = Len(pre.updates)
    /\ action \in ActionIds

\* C8 Tag visibility: within one rule pass, a tag attached by rule i is in
\* the tag set every later rule of the pass is invoked with, on the same
\* update, and an Attach never ends the pass.
C8_TagVisibility ==
    op = "step" =>
        \A i \in 1..Len(calls) :
            calls[i].resp.kind = "Attach" =>
                /\ \A j \in (i + 1)..Len(calls) :
                      /\ calls[j].index = calls[i].index
                      /\ calls[i].resp.t \in calls[j].tags
                /\ i < Len(pre.rules) => Len(calls) > i
                /\ i = Len(pre.rules) => outcome = "Pass"

C8_Witness ==
    /\ op = "step"
    /\ Len(calls) >= 2
    /\ calls[1].resp.kind = "Attach"
    /\ calls[1].resp.t \notin calls[1].tags
    /\ calls[1].resp.t \in calls[2].tags

\* C9 First-match-wins: rules are invoked in registration order, and the
\* first rule returning Divert, Revert or Inject ends the step: no later
\* rule is invoked, no commit is attempted (the committed State is
\* unchanged) and the cursor is not incremented.
C9_FirstMatchWins ==
    op = "step" =>
        /\ \A k \in 1..Len(calls) : calls[k].rule = pre.rules[k]
        /\ \A k \in 1..Len(calls) :
              calls[k].resp.kind \in ShortCircuits =>
                  /\ k = Len(calls)
                  /\ outcome = calls[k].resp.kind
                  /\ ret = NotCalled
                  /\ state = pre.state
                  /\ update \in {pre.update, 0}

C9_Witness ==
    /\ op = "step"
    /\ Len(pre.rules) >= 2
    /\ Len(calls) = 1
    /\ calls[1].resp.kind \in ShortCircuits
    /\ InRange(pre.updates, pre.update)
    /\ pre.updates[pre.update + 1].resolved = "Resolved"
    /\ Last(pre.updates).resolved = "Resolved"
    /\ state = pre.state

\* C10 Unconditional cursor advance: a step() with no pending action and a
\* non-empty chain whose rule pass is not cut short increases the cursor by
\* exactly 1 whether or not it committed; with one Unresolved update queued
\* and cursor 0 the step leaves cursor 1, the committed State unchanged and
\* the update still queued.
C10_CursorAlwaysAdvances ==
    PassCompleted =>
        /\ update = pre.update + 1
        /\ (/\ Len(pre.updates) = 1
            /\ pre.updates[1].resolved = "Unresolved"
            /\ pre.update = 0)
           => /\ update = 1
              /\ state = pre.state
              /\ Len(updates) = 1
              /\ updates[1].filter = pre.updates[1].filter
              /\ updates[1].id = pre.updates[1].id
              /\ updates[1].resolved = "Unresolved"

C10_Witness ==
    /\ PassCompleted
    /\ Len(pre.updates) = 1
    /\ pre.updates[1].resolved = "Unresolved"
    /\ pre.update = 0
    /\ update = 1
    /\ Len(updates) = 1
    /\ ret = NotCalled
\* C11 Single resolved update commits in one step: with no pending action,
\* cursor 0 and a chain of exactly one Resolved update with filter f, a
\* step() whose rule pass is not cut short leaves the committed State equal
\* to f(prior State), the chain empty and the cursor at 1.
C11_SingleResolvedCommits ==
    (/\ PassCompleted
     /\ pre.update = 0
     /\ Len(pre.updates) = 1
     /\ pre.updates[1].resolved = "Resolved")
    => /\ state = ApplyFilter(pre.updates[1].filter, pre.state)
       /\ updates = << >>
       /\ update = 1

C11_Witness ==
    /\ PassCompleted
    /\ pre.update = 0
    /\ Len(pre.updates) = 1
    /\ pre.updates[1].resolved = "Resolved"
    /\ Len(calls) >= 1
    /\ state = Append(pre.state, pre.updates[1].filter)
    /\ updates = << >>
    /\ update = 1

\* C12 Idle step is a no-op: with the Action slot empty and the chain empty,
\* step() leaves the cursor, the committed State, the chain and the Action
\* slot as they were (the cursor of a new engine stays 0) and invokes no
\* rule.
C12_IdleStepIsNoOp ==
    (op = "step" /\ pre.action = NoAction /\ pre.updates = << >>) =>
        /\ update = pre.update
        /\ state = pre.state
        /\ updates = << >>
        /\ action = NoAction
        /\ calls = << >>
        /\ ~panicked

C12_Witness ==
    /\ op = "step"
    /\ pre.action = NoAction
    /\ pre.updates = << >>
    /\ Len(pre.rules) >= 1
    /\ pre.update = 0
    /\ update = 0
    /\ outcome = "Idle"
\* C13 Valid action drain: a step() with a pending action whose generator
\* returns Valid(updates) replaces the chain with exactly that sequence,
\* sets the cursor to 0, empties the Action slot and leaves the committed
\* State unchanged.
C13_ValidActionDrain ==
    (op = "step" /\ pre.action # NoAction /\ response.kind = "Valid") =>
        /\ ~panicked
        /\ updates = response.updates
        /\ update = 0
        /\ action = NoAction
        /\ state = pre.state

\* C14 Invalid action is a non-fatal rejection: a step() with a pending
\* action whose generator returns Invalid(reason) empties the Action slot,
\* leaves the committed State, the chain and the cursor unchanged, and the
\* engine can be stepped again.
C14_InvalidActionRejected ==
    (op = "step" /\ pre.action # NoAction /\ response.kind = "Invalid") =>
        /\ ~panicked
        /\ action = NoAction
        /\ state = pre.state
        /\ updates = pre.updates
        /\ update = pre.update

\* C15 Single action in flight: a step() that starts with the Action slot
\* occupied invokes no rule, so a rule pass runs only on an empty slot and
\* an action installed by Divert, Revert or Inject never replaces a pending
\* one; the slot holds at most one action.
C15_SingleActionInFlight ==
    /\ action \in {NoAction} \cup ActionIds
    /\ op = "step" =>
          /\ pre.action # NoAction =>
                (calls = << >> /\ response # NoResponse
                               /\ action = pre.action)
          /\ calls # << >> => pre.action = NoAction
          /\ outcome \in ShortCircuits =>
                (pre.action = NoAction /\ action = Last(calls).resp.a)

C15_Witness ==
    /\ op = "step"
    /\ pre.action # NoAction
    /\ pre.updates # << >>
    /\ Len(pre.rules) >= 1
    /\ calls = << >>
    /\ response # NoResponse
\* C16 resolve() on an empty chain is an explicit error: the call yields a
\* defined error outcome, not a panic, and leaves the committed State, the
\* chain and the cursor unchanged.
C16_ResolveOnEmptyIsError ==
    (op = "resolve" /\ pre.updates = << >>) =>
        /\ ~panicked
        /\ state = pre.state
        /\ updates = pre.updates
        /\ update = pre.update

Committable ==
    action = NoAction /\ updates # << >>
                      /\ Last(updates).resolved = "Resolved"

ChainCommitted ==
    /\ op = "step"
    /\ ret.kind = "Some"
    /\ updates = << >>
    /\ state = pre.state \o FiltersOf(pre.updates)

C18_CommittableChainCommits ==
    Committable ~> (ChainCommitted \/ op = "push")
\* C19 Commit is all-or-nothing: across one step() either the committed
\* State is unchanged and no commit removed an update, or the committed
\* State becomes the fold of the entire chain and the chain becomes empty;
\* the State never reflects a prefix of the chain and never changes while
\* updates remain queued.
C19_CommitAllOrNothing ==
    op = "step" =>
        /\ \/ state = pre.state /\ ret.kind # "Some"
           \/ /\ ret.kind = "Some"
              /\ state = pre.state \o FiltersOf(pre.updates)
              /\ updates = << >>
        /\ state # pre.state => updates = << >>

C19_Witness ==
    /\ op = "step"
    /\ Len(pre.updates) >= 2
    /\ pre.update = 0
    /\ ret.kind = "Some"
    /\ state = pre.state \o FiltersOf(pre.updates)
    /\ updates = << >>

\* C20 step() never calls resolve() on an empty chain: a step() with no
\* pending action, whatever the chain, the cursor and the rule responses,
\* reaches resolve() only with a non-empty chain, so the inspection of the
\* last update never panics inside step().
C20_StepNeverResolvesEmpty ==
    (op = "step" /\ pre.action = NoAction) =>
        /\ ~panicked
        /\ ret.kind # "NotCalled" => pre.updates # << >>

C20_Witness ==
    /\ op = "step"
    /\ pre.action = NoAction
    /\ Len(calls) >= 1
    /\ ret.kind = "None"
    /\ updates # << >>
    /\ ~panicked

====
